---- MODULE Spec2Model ----
(***************************************************************************)
(* Model of the orchestration cores and utilities of ts-ai-agent-learning: *)
(*   - agenticRAG, the bounded critique-refine loop                        *)
(*     (intermediate/02-agentic-rag, src/unnamed/part_008)                 *)
(*   - the LangGraph research agent                                        *)
(*     (curriculum/intermediate/01-research-agent/graph.ts)                *)
(*   - BudgetGuard and RateLimiter (src/unnamed/part_009)                  *)
(*   - withRetry (src/lib/utils/retry.ts)                                  *)
(*   - the Convex task table (intermediate/03-background-worker)           *)
(*   - chunkText (src/unnamed/part_016)                                    *)
(*   - reviewPR (advanced/01-multi-agent-pr-reviewer/index.ts)             *)
(*   - executeTool (beginner/01-tool-calling-cli/tools.ts)                 *)
(* Strings are sequences of tokens; confidences are hundredths (0.8 = 80). *)
(***************************************************************************)
EXTENDS Integers, Sequences, FiniteSets, TLC

VARIABLES
    \* ---- agenticRAG (part_008:104-157) ----
    ragPc,          \* position of the async function
    maxIterations,  \* parameter
    query,          \* parameter
    currentQuery,   \* let currentQuery
    context,        \* const context of the running iteration
    answer,         \* let answer
    confidence,     \* let confidence
    iteration,      \* let iteration
    refinementLog,  \* const refinementLog: string[]
    ragResult,      \* the object the promise resolves with
    ragError,       \* the error the promise rejects with
    calls,          \* calls made to retrieve / provider.complete, in order
    critiques,      \* the values critiqueAnswer returned, in order
    \* ---- critiqueAnswer as a function of the completion text ----
    critiqueText,
    critiqueOut,
    \* ---- research agent (graph.ts) ----
    agentPc,        \* node about to run, "__end__" or "raised"
    state,          \* ResearchState: query, plan, searchResults, extractedInfo,
                    \* report, citations, currentStep
    agentError,     \* the error invoke() rejects with
    executed,       \* nodes that have run, in order
    completions,    \* texts provider.complete returned, in order
    \* ---- citation extraction as a function of the report text ----
    reportText,
    citationsOut,
    \* ---- BudgetGuard and the requests using it (part_009, part_013) ----
    dailySpend,     \* BudgetGuard.dailySpend
    lastReset,      \* date of BudgetGuard.lastReset
    budgetNow,      \* date the clock shows
    reqPc,          \* position of each runAgent call
    reqEstimate,    \* the estimate each runAgent call checked
    \* ---- withRetry (src/lib/utils/retry.ts) ----
    retryPc,        \* position of the async function
    retryOpts,      \* opts after the defaults were merged in
    attempt,        \* let attempt
    lastError,      \* let lastError
    retryOutcome,   \* what the promise settled with
    retryTrace,     \* invocations of fn and delays, in order
    \* ---- RateLimiter (part_009:136-176) ----
    requests,       \* Map<string, number[]>
    maxRequests,    \* constructor parameter
    windowMs,       \* constructor parameter
    rlNow,          \* Date.now()
    rlHistory,      \* checkLimit calls and what they returned, in order
    \* ---- Convex task table and its workers (convex/tasks.ts) ----
    tasks,          \* rows of the table, by insertion order
    workerPc,       \* position of each worker
    workerTask,     \* the row getNextTask gave each worker
    claimLog,       \* transitions to 'processing', with the status before
    \* ---- chunkText (part_016:40-55) ----
    chunkPc,
    docText,        \* parameter text
    chunkSize,
    overlap,
    start,
    chunks,
    \* ---- reviewPR (advanced/01-multi-agent-pr-reviewer/index.ts) ----
    prPc,           \* position of reviewPR
    files,          \* context.files, by filename
    strategy,       \* what plannerAgent resolved with
    reviewStatus,   \* state of each codeReviewerAgent promise
    reviewValues,   \* the array Promise.all fills in
    prResult,       \* what reviewPR settled with
    prEvents,       \* planner and reviewer events, in order
    \* ---- executeTool (beginner/01-tool-calling-cli/tools.ts) ----
    toolPc,
    toolName,
    toolArgs,
    toolResult,     \* what executeTool settled with
    toolExecuted    \* names of the tools whose execute() ran

ragVars == <<ragPc, maxIterations, query, currentQuery, context, answer,
             confidence, iteration, refinementLog, ragResult, ragError,
             calls, critiques>>
critiqueVars == <<critiqueText, critiqueOut>>
agentVars == <<agentPc, state, agentError, executed, completions>>
citationVars == <<reportText, citationsOut>>
budgetVars == <<dailySpend, lastReset, budgetNow, reqPc, reqEstimate>>
retryVars == <<retryPc, retryOpts, attempt, lastError, retryOutcome, retryTrace>>
rlVars == <<requests, maxRequests, windowMs, rlNow, rlHistory>>
taskVars == <<tasks, workerPc, workerTask, claimLog>>
chunkVars == <<chunkPc, docText, chunkSize, overlap, start, chunks>>
prVars == <<prPc, files, strategy, reviewStatus, reviewValues, prResult, prEvents>>
toolVars == <<toolPc, toolName, toolArgs, toolResult, toolExecuted>>
utilityVars == <<retryVars, rlVars, taskVars, chunkVars, prVars, toolVars>>
vars == <<ragVars, critiqueVars, agentVars, citationVars, budgetVars, utilityVars>>

----------------------------------------------------------------------------
(* Bounds *)
MaxIter == 3
MaxCritiqueLen == 4
MaxPlanLen == 4
MaxReportLen == 5
NumBudgetRequests == 3
MaxDayTicks == 1
MaxRetryOption == 2
MaxClock == 4
MaxRlCalls == 4
MaxRlRequests == 2
MaxRlWindow == 3
MaxTasks == 2
MaxTaskAttempts == 4
NumWorkers == 2
MaxTextLen == 4
MaxChunkSize == 3
MaxOverlap == 3
MaxChunks == 6
MaxFiles == 3

(* Program constants *)
DefaultMaxIterations == 3
GateConfidence == 80
HallucinationThreshold == 70
UnparsedConfidence == 70
FalsyConfidence == 70
FeedbackExcerptLen == 50
MaxDailySpend == 10

None == [def |-> FALSE]
Some(v) == [def |-> TRUE, v |-> v]

Min(a, b) == IF a < b THEN a ELSE b

TextsUpTo(A, n) == UNION {[1..k -> A] : k \in 0..n}

----------------------------------------------------------------------------
(* Completion texts seen by critiqueAnswer.  Tokens: "{" "}" braces, "x"   *)
(* any other prose, and one token per well-formed JSON member.             *)
SatTok == {"sT", "sF"}
ConfTok == {"c0", "c10", "c65", "c70", "c75", "c80", "c90"}
FbTok == {"f1", "fL"}
MemberTok == SatTok \cup ConfTok \cup FbTok

ConfVal(t) ==
    CASE t = "c0" -> 0 [] t = "c10" -> 10 [] t = "c65" -> 65 [] t = "c70" -> 70
      [] t = "c75" -> 75 [] t = "c80" -> 80 [] t = "c90" -> 90

LongFeedback == [i \in 1..52 |-> IF i <= FeedbackExcerptLen THEN "k" ELSE "z"]
FbVal(t) == IF t = "f1" THEN <<"i", "s", "s", "u", "e">> ELSE LongFeedback

UnableToParse == <<"U", "n", "a", "b", "l", "e">>
UndefinedText == <<"u", "n", "d", "e", "f", "i", "n", "e", "d">>

Indices(s, toks) == {i \in 1..Len(s) : s[i] \in toks}
MinOf(S) == CHOOSE m \in S : \A n \in S : m <= n
MaxOf(S) == CHOOSE m \in S : \A n \in S : m >= n

\* text.match(/<open>[\s\S]*<close>/): leftmost open, greedy to the last close
MatchSpan(text, open, close) ==
    LET opens == Indices(text, {open})
        closes == Indices(text, {close})
    IN IF opens = {} THEN None
       ELSE LET i == MinOf(opens)
                after == {j \in closes : j > i}
            IN IF after = {} THEN None
               ELSE Some(SubSeq(text, i, MaxOf(after)))

\* response.content.match(/\{[\s\S]*\}/)
MatchObject(text) == MatchSpan(text, "{", "}")

\* JSON.parse accepts the span iff it is one object whose members are well formed
JsonObjectOk(span) ==
    /\ Len(span) >= 2
    /\ span[1] = "{" /\ span[Len(span)] = "}"
    /\ \A k \in 2..(Len(span) - 1) : span[k] \in MemberTok

\* value of a key in the parsed object: the last member with that key wins
Member(span, keys) ==
    LET at == Indices(span, keys)
    IN IF at = {} THEN None ELSE Some(span[MaxOf(at)])

\* critique.confidence || 0.7
ConfidenceOrDefault(m) ==
    IF ~m.def \/ ConfVal(m.v) = 0 THEN FalsyConfidence ELSE ConfVal(m.v)

\* part_008:88-98.  threw = JSON.parse raised a SyntaxError
critiqueAnswer(text) ==
    LET jsonMatch == MatchObject(text)
    IN IF ~jsonMatch.def
       THEN [threw |-> FALSE, parsed |-> FALSE, satisfactory |-> "true",
             feedback |-> Some(UnableToParse), confidence |-> UnparsedConfidence]
       ELSE IF ~JsonObjectOk(jsonMatch.v)
       THEN [threw |-> TRUE, parsed |-> FALSE, satisfactory |-> "undefined",
             feedback |-> None, confidence |-> 0]
       ELSE LET s == Member(jsonMatch.v, SatTok)
                f == Member(jsonMatch.v, FbTok)
                c == Member(jsonMatch.v, ConfTok)
            IN [threw |-> FALSE, parsed |-> TRUE,
                satisfactory |-> IF ~s.def THEN "undefined"
                                 ELSE IF s.v = "sT" THEN "true" ELSE "false",
                feedback |-> IF f.def THEN Some(FbVal(f.v)) ELSE None,
                confidence |-> ConfidenceOrDefault(c)]

----------------------------------------------------------------------------
(* agenticRAG *)
Queries == {<<"q">>}
Answers == {"a1", "a2"}
Fail == "FAIL"
MockContext == <<"d1", "d2", "d3">>

\* texts the critique completion may return inside a run of the loop
CritiqueTexts ==
    { <<"x">>,
      <<"{", "x", "}">>,
      <<"{", "sT", "c90", "f1", "}">>,
      <<"x", "{", "sT", "c80", "fL", "}", "x">>,
      <<"{", "sT", "c75", "f1", "}">>,
      <<"{", "sF", "c90", "f1", "}">>,
      <<"{", "sF", "c10", "fL", "}">>,
      <<"{", "sF", "c65", "f1", "}">>,
      <<"{", "sF", "c70", "f1", "}">>,
      <<"{", "sT", "c0", "f1", "}">>,
      <<"{", "sF", "c10", "}">>,
      <<"{", "sF", "f1", "}">> }

NoResult == [returned |-> FALSE]

QualityGateStrict(c) == c.satisfactory = "true" /\ c.confidence > GateConfidence

\* part_008:138
QualityGate(c) == c.satisfactory = "true" /\ c.confidence >= GateConfidence

HallucinationsDetectedInclusive(c) == c <= HallucinationThreshold

\* part_008:154
HallucinationsDetected(c) == c < HallucinationThreshold

\* `${...critique.feedback}` in a template literal
FeedbackText(fb) == IF fb.def THEN fb.v ELSE UndefinedText

LogLineZeroBased(it, c) == [iteration |-> it, confidence |-> c.confidence,
                           feedback |-> FeedbackText(c.feedback)]

\* part_008:131-133
LogLine(it, c) == [iteration |-> it + 1, confidence |-> c.confidence,
                   feedback |-> FeedbackText(c.feedback)]

\* the refinement appended to the previous refined query
RefinedQueryFromCurrent(q, fb) ==
    currentQuery \o <<" (focusing on: ">>
                 \o SubSeq(fb, 1, Min(FeedbackExcerptLen, Len(fb))) \o <<")">>

\* part_008:146
RefinedQuery(q, fb) ==
    q \o <<" (focusing on: ">> \o SubSeq(fb, 1, Min(FeedbackExcerptLen, Len(fb))) \o <<")">>

\* part_008:150-156
ResultObject(ans, conf, it, log) ==
    [returned |-> TRUE, answer |-> ans, confidence |-> conf,
     iterationCount |-> it + 1,
     hallucinationsDetected |-> HallucinationsDetected(conf),
     refinementLog |-> log]

RagInit ==
    /\ ragPc = "start"
    /\ maxIterations \in 0..MaxIter
    /\ query \in Queries
    /\ currentQuery = query
    /\ context = <<>>
    /\ answer = ""
    /\ confidence = 0
    /\ iteration = 0
    /\ refinementLog = <<>>
    /\ ragResult = NoResult
    /\ ragError = "none"
    /\ calls = <<>>
    /\ critiques = <<>>

RagIdle ==
    /\ ragPc = "idle"
    /\ maxIterations = DefaultMaxIterations
    /\ query = <<"q">>
    /\ currentQuery = query
    /\ context = <<>>
    /\ answer = ""
    /\ confidence = 0
    /\ iteration = 0
    /\ refinementLog = <<>>
    /\ ragResult = NoResult
    /\ ragError = "none"
    /\ calls = <<>>
    /\ critiques = <<>>

\* part_008:108-114: entry and first loop test
RagStart ==
    /\ ragPc = "start"
    /\ IF iteration < maxIterations
       THEN /\ ragPc' = "retrieve"
            /\ ragResult' = ragResult
       ELSE /\ ragPc' = "returned"
            /\ ragResult' = ResultObject(answer, confidence, iteration, refinementLog)
    /\ UNCHANGED <<maxIterations, query, currentQuery, context, answer, confidence,
                   iteration, refinementLog, ragError, calls, critiques>>
    /\ UNCHANGED <<critiqueVars, agentVars, citationVars, budgetVars, utilityVars>>

\* retrieve whose result is not stored in context
RagRetrieveDropped ==
    /\ ragPc = "retrieve"
    /\ context' = context
    /\ calls' = Append(calls, [op |-> "retrieve", iteration |-> iteration,
                               query |-> currentQuery, context |-> <<>>, answer |-> "",
                               resp |-> MockContext])
    /\ ragPc' = "generate"
    /\ UNCHANGED <<maxIterations, query, currentQuery, answer, confidence,
                   iteration, refinementLog, ragResult, ragError, critiques>>
    /\ UNCHANGED <<critiqueVars, agentVars, citationVars, budgetVars, utilityVars>>

\* part_008:119 (retrieve, part_008:18-25)
RagRetrieve ==
    /\ ragPc = "retrieve"
    /\ context' = MockContext
    /\ calls' = Append(calls, [op |-> "retrieve", iteration |-> iteration,
                               query |-> currentQuery, context |-> <<>>, answer |-> "",
                               resp |-> MockContext])
    /\ ragPc' = "generate"
    /\ UNCHANGED <<maxIterations, query, currentQuery, answer, confidence,
                   iteration, refinementLog, ragResult, ragError, critiques>>
    /\ UNCHANGED <<critiqueVars, agentVars, citationVars, budgetVars, utilityVars>>

\* generateAnswer with the provider error swallowed
RagGenerateSwallow ==
    /\ ragPc = "generate"
    /\ \E resp \in Answers \cup {Fail} :
         /\ calls' = Append(calls, [op |-> "generate", iteration |-> iteration,
                                    query |-> currentQuery, context |-> context,
                                    answer |-> "", resp |-> resp])
         /\ ragPc' = "critique"
         /\ ragError' = ragError
         /\ answer' = IF resp = Fail THEN "" ELSE resp
    /\ UNCHANGED <<maxIterations, query, currentQuery, context, confidence,
                   iteration, refinementLog, ragResult, critiques>>
    /\ UNCHANGED <<critiqueVars, agentVars, citationVars, budgetVars, utilityVars>>

\* part_008:123 (generateAnswer, part_008:30-51)
RagGenerate ==
    /\ ragPc = "generate"
    /\ \E resp \in Answers \cup {Fail} :
         /\ calls' = Append(calls, [op |-> "generate", iteration |-> iteration,
                                    query |-> currentQuery, context |-> context,
                                    answer |-> "", resp |-> resp])
         /\ IF resp = Fail
            THEN /\ ragPc' = "raised"
                 /\ ragError' = "completion"
                 /\ answer' = answer
            ELSE /\ ragPc' = "critique"
                 /\ ragError' = ragError
                 /\ answer' = resp
    /\ UNCHANGED <<maxIterations, query, currentQuery, context, confidence,
                   iteration, refinementLog, ragResult, critiques>>
    /\ UNCHANGED <<critiqueVars, agentVars, citationVars, budgetVars, utilityVars>>

\* part_008:128-148 and, when the loop ends, 150-156
RagCritique ==
    /\ ragPc = "critique"
    /\ \E resp \in CritiqueTexts \cup {<<Fail>>} :
       /\ calls' = Append(calls, [op |-> "critique", iteration |-> iteration,
                                  query |-> currentQuery, context |-> context,
                                  answer |-> answer, resp |-> resp])
       /\ IF resp = <<Fail>>
         THEN /\ ragPc' = "raised"
              /\ ragError' = "completion"
              /\ UNCHANGED <<currentQuery, confidence, iteration, refinementLog,
                             ragResult, critiques>>
         ELSE LET critique == critiqueAnswer(resp) IN
              IF critique.threw
              THEN /\ ragPc' = "raised"
                   /\ ragError' = "SyntaxError"
                   /\ UNCHANGED <<currentQuery, confidence, iteration, refinementLog,
                                  ragResult, critiques>>
              ELSE LET log == Append(refinementLog, LogLine(iteration, critique)) IN
                   /\ critiques' = Append(critiques, critique)
                   /\ confidence' = critique.confidence
                   /\ refinementLog' = log
                   /\ IF QualityGate(critique)
                      THEN \* break
                           /\ ragPc' = "returned"
                           /\ ragError' = ragError
                           /\ ragResult' = ResultObject(answer, critique.confidence,
                                                        iteration, log)
                           /\ UNCHANGED <<currentQuery, iteration>>
                      ELSE IF iteration < maxIterations - 1 /\ ~critique.feedback.def
                      THEN \* undefined.substring(0, 50)
                           /\ ragPc' = "raised"
                           /\ ragError' = "TypeError"
                           /\ UNCHANGED <<currentQuery, iteration, ragResult>>
                      ELSE /\ currentQuery' =
                                IF iteration < maxIterations - 1
                                THEN RefinedQuery(query, critique.feedback.v)
                                ELSE currentQuery
                           /\ iteration' = iteration + 1
                           /\ ragError' = ragError
                           /\ IF iteration + 1 < maxIterations
                              THEN /\ ragPc' = "retrieve"
                                   /\ ragResult' = ragResult
                              ELSE /\ ragPc' = "returned"
                                   /\ ragResult' = ResultObject(answer, critique.confidence,
                                                                iteration + 1, log)
    /\ UNCHANGED <<maxIterations, query, context, answer>>
    /\ UNCHANGED <<critiqueVars, agentVars, citationVars, budgetVars, utilityVars>>

RagNext == RagStart \/ RagRetrieve \/ RagGenerate \/ RagCritique

----------------------------------------------------------------------------
(* critiqueAnswer applied to every short completion text *)
CritiqueAlphabet == {"{", "}", "x", "sT", "sF", "c0", "c90", "f1"}

CritiqueIdle == critiqueText = <<>> /\ critiqueOut = None

CritiqueParseInit ==
    /\ critiqueText \in TextsUpTo(CritiqueAlphabet, MaxCritiqueLen)
    /\ critiqueOut = None

CritiqueParse ==
    /\ ~critiqueOut.def
    /\ critiqueOut' = Some(critiqueAnswer(critiqueText))
    /\ UNCHANGED critiqueText
    /\ UNCHANGED <<ragVars, agentVars, citationVars, budgetVars, utilityVars>>

----------------------------------------------------------------------------
(* Research agent: texts.  Plan tokens: "[" "]" "," punctuation, "q1" "q2" *)
(* JSON string literals, "x" any other prose.                              *)
PlanAlphabet == {"[", "]", ",", "q1", "q2", "x"}
LiteralTok == {"q1", "q2"}

\* response.content.match(/\[[\s\S]*\]/)
MatchArray(text) == MatchSpan(text, "[", "]")

RECURSIVE IsJsonValue(_), IsJsonElements(_)
\* JSON.parse grammar: value := literal | "[" (value ("," value)*)? "]"
IsJsonValue(s) ==
    \/ Len(s) = 1 /\ s[1] \in LiteralTok
    \/ /\ Len(s) >= 2
       /\ s[1] = "[" /\ s[Len(s)] = "]"
       /\ (Len(s) = 2 \/ IsJsonElements(SubSeq(s, 2, Len(s) - 1)))
IsJsonElements(s) ==
    \/ IsJsonValue(s)
    \/ \E k \in 2..(Len(s) - 1) :
         /\ s[k] = ","
         /\ IsJsonValue(SubSeq(s, 1, k - 1))
         /\ IsJsonElements(SubSeq(s, k + 1, Len(s)))

RECURSIVE JsonElements(_)
\* the elements of a valid element list, each as its own text
JsonElements(s) ==
    IF s = <<>> THEN <<>>
    ELSE IF IsJsonValue(s) THEN <<s>>
    ELSE LET k == MinOf({j \in 2..(Len(s) - 1) :
                           s[j] = "," /\ IsJsonValue(SubSeq(s, 1, j - 1))})
         IN <<SubSeq(s, 1, k - 1)>> \o JsonElements(SubSeq(s, k + 1, Len(s)))

\* JSON.parse(jsonMatch[0]) for a span that starts with "[" and ends with "]"
JsonParseArray(span) ==
    IF IsJsonValue(span)
    THEN [threw |-> FALSE, value |-> JsonElements(SubSeq(span, 2, Len(span) - 1))]
    ELSE [threw |-> TRUE, value |-> <<>>]

ParsePlanEmptyFallback(text, q) ==
    LET jsonMatch == MatchArray(text)
    IN IF jsonMatch.def THEN JsonParseArray(jsonMatch.v)
       ELSE [threw |-> FALSE, value |-> <<>>]

\* graph.ts:44-45
ParsePlan(text, q) ==
    LET jsonMatch == MatchArray(text)
    IN IF jsonMatch.def THEN JsonParseArray(jsonMatch.v)
       ELSE [threw |-> FALSE, value |-> <<q>>]

\* graph.ts:57-68
MockResults(q) ==
    << [title |-> <<"Result 1 for">> \o q, url |-> "https://example.com/1",
        snippet |-> <<"mock result for">> \o q],
       [title |-> <<"Result 2 for">> \o q, url |-> "https://example.com/2",
        snippet |-> <<"Another mock result about">> \o q] >>

\* results deduplicated by url
FlatMapResultsDedupUrl(p) == IF p = <<>> THEN <<>> ELSE MockResults(Head(p))

RECURSIVE FlatMapResults(_)
FlatMapResults(p) ==
    IF p = <<>> THEN <<>> ELSE MockResults(Head(p)) \o FlatMapResults(Tail(p))

\* Extract tokens: "\n" line break, " " blank, "w1" "w2" words
Whitespace == {" ", "\n"}
RECURSIVE SplitLines(_)
\* content.split('\n')
SplitLines(text) ==
    LET nls == Indices(text, {"\n"})
    IN IF nls = {} THEN <<text>>
       ELSE LET k == MinOf(nls)
            IN <<SubSeq(text, 1, k - 1)>> \o SplitLines(SubSeq(text, k + 1, Len(text)))

\* .filter((line) => line.trim())
NonBlankLines(lines) ==
    SelectSeq(lines, LAMBDA l : \E i \in 1..Len(l) : l[i] \notin Whitespace)

\* Report tokens: "[1]" "[2]" citation markers, "ua" "ub" the urls http://a and
\* http://b, " " and "\n" whitespace, "w" any other word
MarkerTok == {"[1]", "[2]"}
UrlTok == {"ua", "ub"}
ReportAlphabet == MarkerTok \cup UrlTok \cup {" ", "\n", "w"}

\* one match of /\[\d+\].*?https?:\/\/[^\s)]+/ starting at or after pos:
\* the leftmost marker that has a url later on its line, lazily up to the
\* first such url, then greedily through the non-blank tokens after it
UrlAfter(text, i) ==
    {j \in (i + 1)..Len(text) :
        /\ text[j] \in UrlTok
        /\ \A k \in (i + 1)..(j - 1) : text[k] # "\n"}
MatchStarts(text, pos) ==
    {i \in pos..Len(text) : text[i] \in MarkerTok /\ UrlAfter(text, i) # {}}
MatchEnd(text, i) ==
    LET j == MinOf(UrlAfter(text, i))
        stops == {k \in (j + 1)..Len(text) : text[k] \in Whitespace}
    IN IF stops = {} THEN Len(text) ELSE MinOf(stops) - 1

RECURSIVE MatchAllFrom(_, _)
\* content.match(/.../g): successive non-overlapping matches, left to right
MatchAllFrom(text, pos) ==
    IF MatchStarts(text, pos) = {} THEN <<>>
    ELSE LET i == MinOf(MatchStarts(text, pos))
             e == MatchEnd(text, i)
         IN <<SubSeq(text, i, e)>> \o MatchAllFrom(text, e + 1)
CitationMatches(text) == MatchAllFrom(text, 1)

RECURSIVE SetInsertionOrder(_, _)
\* Array.from(new Set(xs)): a Set keeps the first insertion of each value
SetInsertionOrder(xs, seen) ==
    IF xs = <<>> THEN <<>>
    ELSE IF Head(xs) \in seen THEN SetInsertionOrder(Tail(xs), seen)
    ELSE <<Head(xs)>> \o SetInsertionOrder(Tail(xs), seen \cup {Head(xs)})
ArrayNoDedup(xs) == xs

ArrayFromSet(xs) == SetInsertionOrder(xs, {})

\* graph.ts:131-132
ExtractCitations(text) == ArrayFromSet(CitationMatches(text))

----------------------------------------------------------------------------
(* Research agent: graph and nodes *)
ResearchQuery == <<"q0">>
FailText == <<Fail>>

\* every short text, and three longer lists (two different sub-queries, the
\* same sub-query twice, three sub-queries)
LongPlanTexts ==
    { <<"[", "q1", ",", "q2", "]">>,
      <<"x", "[", "q1", ",", "q1", "]">>,
      <<"[", "q2", ",", "q1", ",", "q2", "]">> }
PlanTexts == TextsUpTo(PlanAlphabet, MaxPlanLen) \cup LongPlanTexts
ExtractTexts == { <<>>, <<"w1">>, <<"w1", "\n", " ", "\n", "\n", "w2", " ">> }
ExampleReport == <<"w", " ", "[1]", " ", "ua", "\n", "[2]", " ", "ub", "\n", "[1]", " ", "ua">>
ReportTexts == { <<"w">>, <<"[1]", " ", "ua">>, ExampleReport }

\* graph.ts:148-151
Nodes == {"plan", "search", "extract", "synthesize"}

EdgesSkipSearch ==
    { <<"__start__", "plan">>, <<"plan", "extract">>, <<"search", "extract">>,
      <<"extract", "synthesize">>, <<"synthesize", "__end__">> }

\* graph.ts:154-158
Edges == { <<"__start__", "plan">>, <<"plan", "search">>, <<"search", "extract">>,
           <<"extract", "synthesize">>, <<"synthesize", "__end__">> }
\* the compiled graph runs, after a node, the node its outgoing edge names
NextNode(n) == CHOOSE m \in Nodes \cup {"__end__"} : <<n, m>> \in Edges

AgentInit ==
    /\ agentPc = "__start__"
    /\ state = [query |-> ResearchQuery, plan |-> None, searchResults |-> None,
                extractedInfo |-> None, report |-> None, citations |-> None,
                currentStep |-> None]
    /\ agentError = "none"
    /\ executed = <<>>
    /\ completions = <<>>

AgentIdle ==
    /\ agentPc = "idle"
    /\ state = [query |-> ResearchQuery, plan |-> None, searchResults |-> None,
                extractedInfo |-> None, report |-> None, citations |-> None,
                currentStep |-> None]
    /\ agentError = "none"
    /\ executed = <<>>
    /\ completions = <<>>

AgentRaise(err) ==
    /\ agentPc' = "raised"
    /\ agentError' = err
    /\ state' = state

\* the delta replacing the state's optional fields instead of being merged
AgentApplyReplace(node, delta) ==
    /\ state' = [f \in DOMAIN state |->
                    IF f \in DOMAIN delta THEN delta[f]
                    ELSE IF f = "query" THEN state[f] ELSE None]
    /\ agentPc' = NextNode(node)
    /\ agentError' = agentError

\* merge of a node's delta into the state, then the outgoing edge
AgentApply(node, delta) ==
    /\ state' = [f \in DOMAIN state |-> IF f \in DOMAIN delta THEN delta[f] ELSE state[f]]
    /\ agentPc' = NextNode(node)
    /\ agentError' = agentError

\* graph.ts:154: app.invoke({query})
AgentStart ==
    /\ agentPc = "__start__"
    /\ agentPc' = NextNode("__start__")
    /\ UNCHANGED <<state, agentError, executed, completions>>
    /\ UNCHANGED <<ragVars, critiqueVars, citationVars, budgetVars, utilityVars>>

\* planResearch reporting its own name in currentStep
planResearchOwnName ==
    /\ agentPc = "plan"
    /\ executed' = Append(executed, "plan")
    /\ \E resp \in PlanTexts \cup {FailText} :
         /\ completions' = Append(completions, resp)
         /\ IF resp = FailText THEN AgentRaise("completion")
            ELSE LET parsed == ParsePlan(resp, state.query)
                 IN IF parsed.threw THEN AgentRaise("SyntaxError")
                    ELSE AgentApply("plan", [plan |-> Some(parsed.value),
                                             currentStep |-> Some("plan")])
    /\ UNCHANGED <<ragVars, critiqueVars, citationVars, budgetVars, utilityVars>>

\* graph.ts:24-48
planResearch ==
    /\ agentPc = "plan"
    /\ executed' = Append(executed, "plan")
    /\ \E resp \in PlanTexts \cup {FailText} :
         /\ completions' = Append(completions, resp)
         /\ IF resp = FailText THEN AgentRaise("completion")
            ELSE LET parsed == ParsePlan(resp, state.query)
                 IN IF parsed.threw THEN AgentRaise("SyntaxError")
                    ELSE AgentApply("plan", [plan |-> Some(parsed.value),
                                             currentStep |-> Some("search")])
    /\ UNCHANGED <<ragVars, critiqueVars, citationVars, budgetVars, utilityVars>>

\* graph.ts:53-71
executeSearches ==
    /\ agentPc = "search"
    /\ executed' = Append(executed, "search")
    /\ AgentApply("search",
           [searchResults |-> IF state.plan.def THEN Some(FlatMapResults(state.plan.v))
                              ELSE None,
            currentStep |-> Some("extract")])
    /\ UNCHANGED completions
    /\ UNCHANGED <<ragVars, critiqueVars, citationVars, budgetVars, utilityVars>>

\* graph.ts:76-103
extractInformation ==
    /\ agentPc = "extract"
    /\ executed' = Append(executed, "extract")
    /\ \E resp \in ExtractTexts \cup {FailText} :
         /\ completions' = Append(completions, resp)
         /\ IF resp = FailText THEN AgentRaise("completion")
            ELSE AgentApply("extract",
                     [extractedInfo |-> Some(NonBlankLines(SplitLines(resp))),
                      currentStep |-> Some("synthesize")])
    /\ UNCHANGED <<ragVars, critiqueVars, citationVars, budgetVars, utilityVars>>

\* graph.ts:108-139
synthesizeReport ==
    /\ agentPc = "synthesize"
    /\ executed' = Append(executed, "synthesize")
    /\ \E resp \in ReportTexts \cup {FailText} :
         /\ completions' = Append(completions, resp)
         /\ IF resp = FailText THEN AgentRaise("completion")
            ELSE AgentApply("synthesize",
                     [report |-> Some(resp),
                      citations |-> Some(ExtractCitations(resp)),
                      currentStep |-> Some("done")])
    /\ UNCHANGED <<ragVars, critiqueVars, citationVars, budgetVars, utilityVars>>

AgentNext == AgentStart \/ planResearch \/ executeSearches \/ extractInformation
             \/ synthesizeReport

----------------------------------------------------------------------------
(* Citation extraction applied to every short report text *)
CitationIdle == reportText = <<>> /\ citationsOut = None

CitationInit ==
    /\ reportText \in TextsUpTo(ReportAlphabet, MaxReportLen) \cup {ExampleReport}
    /\ citationsOut = None

CitationExtract ==
    /\ ~citationsOut.def
    /\ citationsOut' = Some(ExtractCitations(reportText))
    /\ UNCHANGED reportText
    /\ UNCHANGED <<ragVars, critiqueVars, agentVars, budgetVars, utilityVars>>

----------------------------------------------------------------------------
(* BudgetGuard (part_009:18-114) used by concurrent runAgent calls            *)
(* (part_013:11-55).  Costs are whole units of the budget's currency.        *)
BudgetCosts == {2, 4, 6}
BudgetRequests == 1..NumBudgetRequests

BudgetInit ==
    /\ dailySpend = 0
    /\ lastReset = 0
    /\ budgetNow = 0
    /\ reqPc = [r \in BudgetRequests |-> "start"]
    /\ reqEstimate = [r \in BudgetRequests |-> 0]

BudgetIdle ==
    /\ dailySpend = 0
    /\ lastReset = 0
    /\ budgetNow = 0
    /\ reqPc = [r \in BudgetRequests |-> "idle"]
    /\ reqEstimate = [r \in BudgetRequests |-> 0]

\* part_009:39-45: the spend after resetIfNewDay
SpendAfterReset == IF budgetNow # lastReset THEN 0 ELSE dailySpend

\* part_009:63-82 called at part_013:28-31
BudgetCheck(r) ==
    /\ reqPc[r] = "start"
    /\ \E estimatedCost \in BudgetCosts :
         /\ reqEstimate' = [reqEstimate EXCEPT ![r] = estimatedCost]
         /\ reqPc' = [reqPc EXCEPT ![r] =
                        IF SpendAfterReset + estimatedCost > MaxDailySpend
                        THEN "rejected" ELSE "inflight"]
    /\ dailySpend' = SpendAfterReset
    /\ lastReset' = budgetNow
    /\ UNCHANGED budgetNow
    /\ UNCHANGED <<ragVars, critiqueVars, agentVars, citationVars, utilityVars>>

\* part_013:35-42: the completion call throws, nothing is recorded
BudgetRequestFails(r) ==
    /\ reqPc[r] = "inflight"
    /\ reqPc' = [reqPc EXCEPT ![r] = "failed"]
    /\ UNCHANGED <<dailySpend, lastReset, budgetNow, reqEstimate>>
    /\ UNCHANGED <<ragVars, critiqueVars, agentVars, citationVars, utilityVars>>

\* part_009:84-87 called at part_013:45-52
BudgetRecord(r) ==
    /\ reqPc[r] = "inflight"
    /\ \E actualCost \in BudgetCosts :
         dailySpend' = SpendAfterReset + actualCost
    /\ lastReset' = budgetNow
    /\ reqPc' = [reqPc EXCEPT ![r] = "done"]
    /\ UNCHANGED <<budgetNow, reqEstimate>>
    /\ UNCHANGED <<ragVars, critiqueVars, agentVars, citationVars, utilityVars>>

\* the calendar date changes
BudgetNewDay ==
    /\ budgetNow < MaxDayTicks
    /\ budgetNow' = budgetNow + 1
    /\ UNCHANGED <<dailySpend, lastReset, reqPc, reqEstimate>>
    /\ UNCHANGED <<ragVars, critiqueVars, agentVars, citationVars, utilityVars>>

BudgetNext ==
    \/ \E r \in BudgetRequests : BudgetCheck(r)
    \/ \E r \in BudgetRequests : BudgetRequestFails(r)
    \/ \E r \in BudgetRequests : BudgetRecord(r)
    \/ BudgetNewDay

----------------------------------------------------------------------------
(* Properties of agenticRAG *)
CallsOf(op) == {k \in 1..Len(calls) : calls[k].op = op}
CallCount(op) == Cardinality(CallsOf(op))
\* response of the i-th call of a kind
NthCall(op, i) == calls[CHOOSE k \in CallsOf(op) : Cardinality({j \in CallsOf(op) : j <= k}) = i]
RagTerminated == ragPc \in {"returned", "raised"}
PassesGate(c) == c.satisfactory = "true" /\ c.confidence >= 80

\* C1: for maxIterations = n >= 1 the returned iterationCount is at most n,
\* also when the quality gate never passes and all n iterations run.
C1_IterationCountBounded ==
    (ragResult.returned /\ maxIterations >= 1) => ragResult.iterationCount <= maxIterations

\* C2: with maxIterations = n, Retrieve, Generate and Critique are each called
\* at most n times, and a run in which no completion call fails ends by
\* returning (it never ends by raising).
C2_BoundedThenReturns ==
    /\ CallCount("retrieve") <= maxIterations
    /\ CallCount("generate") <= maxIterations
    /\ CallCount("critique") <= maxIterations
    /\ (ragPc = "raised" => ragError = "completion")

\* C3: when every iteration's critique fails the quality gate the run ends
\* without an error, iterationCount equals maxIterations and the returned
\* answer is the one generated in the last iteration.
C3_ForcedTerminationAtCap ==
    (/\ maxIterations >= 1
     /\ \A i \in 1..Len(critiques) : ~PassesGate(critiques[i]))
    => /\ ragError # "TypeError"
       /\ ragResult.returned =>
            /\ ragResult.iterationCount = maxIterations
            /\ ragResult.answer = NthCall("generate", CallCount("generate")).resp

\* C4: if iteration i is the first whose critique is satisfactory with
\* confidence >= 0.8, the run has returned right after that critique with
\* iterationCount = i and the answer generated in iteration i, having made
\* exactly i Retrieve, i Generate and i Critique calls.
C4_QualityGateShortCircuit ==
    LET passing == {i \in 1..Len(critiques) : PassesGate(critiques[i])}
    IN passing # {} =>
         LET i == MinOf(passing)
         IN /\ ragPc = "returned"
            /\ i <= maxIterations
            /\ ragResult.iterationCount = i
            /\ ragResult.answer = NthCall("generate", i).resp
            /\ CallCount("retrieve") = i
            /\ CallCount("generate") = i
            /\ CallCount("critique") = i
            /\ Len(critiques) = i

\* the gate passed at exactly 0.8 in the second of three allowed iterations,
\* after a satisfactory critique below 0.8
C4_Witness ==
    /\ ragPc = "returned"
    /\ maxIterations = 3
    /\ Len(critiques) = 2
    /\ critiques[1].satisfactory = "true" /\ critiques[1].confidence = 75
    /\ critiques[2].satisfactory = "true" /\ critiques[2].confidence = 80
    /\ ragResult.iterationCount = 2

\* C8: at termination hallucinationsDetected is true exactly when the returned
\* confidence is below 0.7, and the returned confidence is the loop's confidence.
C8_HallucinationFlag ==
    ragResult.returned =>
        /\ ragResult.hallucinationsDetected = (ragResult.confidence < 70)
        /\ ragResult.confidence = confidence

\* a run returned with confidence exactly 0.7 stated by the critique, flag false
C8_Witness ==
    /\ ragResult.returned
    /\ Len(critiques) >= 1
    /\ critiques[Len(critiques)].parsed
    /\ ragResult.confidence = 70
    /\ ~ragResult.hallucinationsDetected

\* C5: for every completion text that is not a parseable JSON object,
\* critiqueAnswer does not raise and returns the optimistic default.
C5_CritiqueNeverRaises ==
    (/\ critiqueOut.def
     /\ LET m == MatchObject(critiqueText) IN ~m.def \/ ~JsonObjectOk(m.v))
    => /\ ~critiqueOut.v.threw
       /\ critiqueOut.v.satisfactory = "true"
       /\ critiqueOut.v.confidence = 70
       /\ critiqueOut.v.feedback = Some(UnableToParse)

----------------------------------------------------------------------------
(* Properties of the research agent *)
HasBracketSpan(text) ==
    \E i, j \in 1..Len(text) : i < j /\ text[i] = "[" /\ text[j] = "]"
PlanCompleted == Len(completions) >= 1 /\ completions[1] # FailText
StageOrder == <<"plan", "search", "extract", "synthesize">>
FirstIndex(xs, x) == MinOf({i \in 1..Len(xs) : xs[i] = x})

\* C6: when the planning completion text has no '[' ... ']' span, the plan is
\* the single-element list holding the original query and the run goes on to
\* the Search stage.
C6_PlanFallback ==
    (PlanCompleted /\ ~HasBracketSpan(completions[1]))
    => /\ state.plan = Some(<<state.query>>)
       /\ agentError # "SyntaxError"
       /\ (Len(executed) = 1 => (agentPc = "search" /\ agentError = "none"))

\* the text has both brackets, but no "[" before a "]"
C6_Witness ==
    /\ PlanCompleted
    /\ completions[1] = <<"]", "x", "[">>
    /\ agentPc = "search"
    /\ state.plan = Some(<<ResearchQuery>>)

\* C7: whatever text the planning completion returns, planResearch does not
\* throw: the plan is set (to the parsed list or to [query]) and the run has
\* not been rejected with a parse error.
C7_PlanNeverThrows ==
    PlanCompleted => (agentError # "SyntaxError" /\ state.plan.def)

\* C9: citations holds every distinct match of the citation pattern exactly
\* once, ordered by first occurrence in the text; the text with [1] http://a,
\* [2] http://b, [1] http://a gives the a-citation then the b-citation.
C9_CitationsDedupOrdered ==
    citationsOut.def =>
        LET ms == CitationMatches(reportText)
            cs == citationsOut.v
        IN /\ \A i, j \in 1..Len(cs) : i # j => cs[i] # cs[j]
           /\ {cs[i] : i \in 1..Len(cs)} = {ms[i] : i \in 1..Len(ms)}
           /\ \A i, j \in 1..Len(cs) :
                i < j => FirstIndex(ms, cs[i]) < FirstIndex(ms, cs[j])
           /\ (reportText = ExampleReport =>
                 cs = << <<"[1]", " ", "ua">>, <<"[2]", " ", "ub">> >>)

\* the example text: three matches, two citations
C9_Witness ==
    /\ citationsOut.def
    /\ reportText = ExampleReport
    /\ Len(CitationMatches(reportText)) = 3
    /\ Len(citationsOut.v) = 2

\* C10: the stages run in the order Plan, Search, Extract, Synthesize: the
\* nodes that have run are always an initial part of that order, the node
\* about to run is the successor of the last one that ran, and a run that
\* reaches the end has run each of the four exactly once.
C10_LinearOrder ==
    /\ Len(executed) <= Len(StageOrder)
    /\ executed = SubSeq(StageOrder, 1, Len(executed))
    /\ (agentPc \in Nodes => agentPc = StageOrder[Len(executed) + 1])
    /\ (agentPc = "__end__" => executed = StageOrder)

\* a run that reached the end of the graph
C10_Witness ==
    /\ agentPc = "__end__"
    /\ executed = StageOrder
    /\ state.report.def /\ state.citations.def

----------------------------------------------------------------------------
(* Further properties of the research agent and of agenticRAG *)

\* C11: a research-agent run that reaches the end of the graph without raising
\* has report and citations present and non-empty, whatever text the
\* Synthesize completion returned.
C11_ReportAndCitationsNonEmpty ==
    agentPc = "__end__" =>
        /\ state.report.def /\ state.report.v # <<>>
        /\ state.citations.def /\ state.citations.v # <<>>

\* C12: a run of agenticRAG that returns has made at least one Generate call
\* and returns the text one of its Generate calls produced.
C12_AnswerWasGenerated ==
    ragResult.returned =>
        /\ CallCount("generate") >= 1
        /\ \E k \in CallsOf("generate") : calls[k].resp = ragResult.answer

\* a Generate or Critique call whose completion call threw
CallFailed(c) ==
    \/ c.op = "generate" /\ c.resp = Fail
    \/ c.op = "critique" /\ c.resp = FailText

\* C13: when the completion call throws inside Generate or Critique, the run
\* is rejected with that error at once: the failed call is the last call made
\* (no retry, no later Retrieve, Generate or Critique) and no result object
\* exists.
C13_CompletionFailureAborts ==
    /\ \A k \in 1..Len(calls) :
         CallFailed(calls[k]) =>
            /\ k = Len(calls)
            /\ ragPc = "raised"
            /\ ragError = "completion"
            /\ ragResult = NoResult
    /\ (ragError = "completion" =>
            Len(calls) >= 1 /\ CallFailed(calls[Len(calls)]))

\* the Critique completion of the second iteration threw
C13_Witness ==
    /\ ragPc = "raised"
    /\ ragError = "completion"
    /\ Len(calls) = 6
    /\ calls[6].op = "critique" /\ calls[6].resp = FailText
    /\ ragResult = NoResult

\* C14: refinementLog is append-only: a step either leaves it alone or appends
\* one entry, it has one entry per critique that completed, and entry k
\* describes iteration k with that critique's confidence and feedback.
C14_LogAppendOnly ==
    /\ [](/\ Len(refinementLog) = Len(critiques)
          /\ \A k \in 1..Len(refinementLog) :
               /\ refinementLog[k].iteration = k
               /\ refinementLog[k].confidence = critiques[k].confidence
               /\ refinementLog[k].feedback =
                    (IF critiques[k].feedback.def THEN critiques[k].feedback.v
                     ELSE UndefinedText))
    /\ [][\/ refinementLog' = refinementLog
          \/ /\ Len(refinementLog') = Len(refinementLog) + 1
             /\ SubSeq(refinementLog', 1, Len(refinementLog)) = refinementLog]_vars

\* three iterations completed their critique
C14_Witness ==
    /\ Len(refinementLog) = 3
    /\ refinementLog[3].iteration = 3
    /\ Len(critiques) = 3

\* the stage that owns each output field of ResearchState
OutputFields == {"plan", "searchResults", "extractedInfo", "report", "citations"}
OwnerOf(f) ==
    CASE f = "plan" -> "plan"
      [] f = "searchResults" -> "search"
      [] f = "extractedInfo" -> "extract"
      [] f \in {"report", "citations"} -> "synthesize"

\* C15: no step of a research-agent run changes query; an output field that
\* has been set is never cleared or overwritten afterwards; and an output
\* field changes only in a step of the stage that owns it.
C15_FieldsWriteOnce ==
    [][/\ state'.query = state.query
       /\ \A f \in OutputFields :
            /\ (state[f].def => state'[f] = state[f])
            /\ (state'[f] # state[f] => agentPc = OwnerOf(f))]_vars

\* all five output fields set, the two-element plan still in place at the end
C15_Witness ==
    /\ agentPc = "__end__"
    /\ state.query = ResearchQuery
    /\ state.plan = Some(<< <<"q1">>, <<"q2">> >>)
    /\ Len(state.searchResults.v) = 4
    /\ state.extractedInfo.def /\ state.report.def /\ state.citations.def

\* the stage that has most recently completed (the last node that ran, unless
\* it raised)
StageCompleted == Len(executed) >= 1 /\ agentPc # "raised"
LastStage == executed[Len(executed)]

\* C16 as stated: after a stage completes, currentStep is the name of that
\* most recently completed stage.
C16_CurrentStepNamesCompletedStage ==
    StageCompleted => state.currentStep = Some(LastStage)

\* C16 amended: after a stage completes, currentStep is the name of the stage
\* that follows it ("search" after Plan, "extract" after Search, "synthesize"
\* after Extract, "done" after Synthesize); the node that runs next is the
\* one the edge list gives, whatever currentStep holds.
C16_CurrentStepNamesNextStage ==
    StageCompleted =>
        /\ state.currentStep =
             Some(CASE LastStage = "plan" -> "search"
                    [] LastStage = "search" -> "extract"
                    [] LastStage = "extract" -> "synthesize"
                    [] LastStage = "synthesize" -> "done")
        /\ agentPc =
             (CASE LastStage = "plan" -> "search"
                [] LastStage = "search" -> "extract"
                [] LastStage = "extract" -> "synthesize"
                [] LastStage = "synthesize" -> "__end__")

\* Plan has completed and Search is about to run
C16_Witness ==
    /\ executed = <<"plan">>
    /\ agentPc = "search"
    /\ state.currentStep = Some("search")

\* C17: when every request checks its estimate before the call and records
\* its cost after it, dailySpend never exceeds maxDailySpend, also with
\* several requests between their check and their record.
C17_BudgetNeverExceeded == dailySpend <= 10

\* the first 50 characters of a feedback text
Excerpt(fb) == [i \in 1..(IF Len(fb) < 50 THEN Len(fb) ELSE 50) |-> fb[i]]

\* C18: the query passed to Retrieve, Generate and Critique is the original
\* query in the first iteration and, in a later iteration, the original query
\* followed by at most 50 characters of the preceding critique's feedback, so
\* it is never longer than the original query plus a constant; once the run
\* has returned, currentQuery is still the query of the last call.
C18_RefinedFromOriginal ==
    /\ \A k \in 1..Len(calls) :
         LET c == calls[k] IN
         IF c.iteration = 0 THEN c.query = query
         ELSE /\ critiques[c.iteration].feedback.def
              /\ c.query = query \o <<" (focusing on: ">>
                                 \o Excerpt(critiques[c.iteration].feedback.v)
                                 \o <<")">>
              /\ Len(c.query) <= Len(query) + 52
    /\ (ragPc = "returned" /\ Len(calls) >= 1 =>
            currentQuery = calls[Len(calls)].query)

\* the third iteration runs on a query refined from a 52-character feedback,
\* after a second iteration refined from a different feedback
C18_Witness ==
    /\ Len(calls) >= 7
    /\ calls[7].iteration = 2
    /\ Len(critiques) >= 2
    /\ critiques[1].feedback.v # critiques[2].feedback.v
    /\ Len(critiques[2].feedback.v) = 52
    /\ Len(calls[7].query) = Len(query) + 52

\* C19: the calls of a run go Retrieve, Generate, Critique, iteration after
\* iteration, one of each per iteration and all three with the same query;
\* Generate and Critique get the context that iteration's Retrieve returned
\* and Critique gets the answer that iteration's Generate returned.
C19_StepOrderAndDataFlow ==
    \A k \in 1..Len(calls) :
        LET c == calls[k] IN
        /\ c.iteration = (k - 1) \div 3
        /\ c.op = <<"retrieve", "generate", "critique">>[((k - 1) % 3) + 1]
        /\ (c.op = "generate" =>
                /\ c.context = calls[k - 1].resp
                /\ c.query = calls[k - 1].query)
        /\ (c.op = "critique" =>
                /\ c.context = calls[k - 2].resp
                /\ c.answer = calls[k - 1].resp
                /\ c.query = calls[k - 1].query)

\* the critique of the second iteration judged the second iteration's answer,
\* which differs from the first one's
C19_Witness ==
    /\ Len(calls) = 6
    /\ calls[6].op = "critique"
    /\ calls[6].answer = "a2"
    /\ calls[2].resp = "a1"
    /\ calls[6].context = MockContext

\* C20: for a plan of k sub-queries searchResults has 2k entries, the two
\* entries of sub-query j at positions 2j-1 and 2j, and entries with the same
\* url are all kept.
C20_SearchResultsStable ==
    state.searchResults.def =>
        /\ state.plan.def
        /\ LET p == state.plan.v
               r == state.searchResults.v
           IN /\ Len(r) = 2 * Len(p)
              /\ \A j \in 1..Len(p) :
                   /\ r[2 * j - 1].title = <<"Result 1 for">> \o p[j]
                   /\ r[2 * j - 1].url = "https://example.com/1"
                   /\ r[2 * j].title = <<"Result 2 for">> \o p[j]
                   /\ r[2 * j].url = "https://example.com/2"

\* three sub-queries, the first and the last equal: six results, the same url
\* three times
C20_Witness ==
    /\ state.searchResults.def
    /\ state.plan.v = << <<"q2">>, <<"q1">>, <<"q2">> >>
    /\ Len(state.searchResults.v) = 6
    /\ state.searchResults.v[1] = state.searchResults.v[5]
    /\ state.searchResults.v[1].url = state.searchResults.v[3].url

----------------------------------------------------------------------------
(* withRetry (src/lib/utils/retry.ts:27-65).  An error is a record of the   *)
(* fields the catch block reads; id is the invocation of fn that raised it  *)
(* (0 for an error withRetry creates itself).                               *)
DefaultMaxRetries == 3
InitialDelayMs == 1000
MaxDelayMs == 10000
BackoffMultiplier == 2
DefaultRetryableErrors ==
    <<"rate_limit_exceeded", "timeout", "service_unavailable", "ECONNRESET", "ETIMEDOUT">>

Undef == [kind |-> "undefined", s |-> <<>>]
Str(s) == [kind |-> "string", s |-> s]
Num == [kind |-> "number", s |-> <<>>]

\* String.prototype.includes, on token sequences
Includes(s, t) == \E i \in 1..Len(s) : s[i] = t

\* lastError?.message.includes(errType): lastError is an object here, so
\* only a string message has an includes to call
MessageIncludes(f, t) ==
    IF f.kind = "string" THEN (IF Includes(f.s, t) THEN "true" ELSE "false")
    ELSE "TypeError"

\* lastError?.code?.includes(errType), lastError?.type?.includes(errType)
OptionalIncludes(f, t) ==
    IF f.kind = "undefined" THEN "false"
    ELSE IF f.kind = "string" THEN (IF Includes(f.s, t) THEN "true" ELSE "false")
    ELSE "TypeError"

\* retry.ts:39-42: the callback of some(), with || evaluated left to right
ErrTypeMatches(e, t) ==
    LET m == MessageIncludes(e.message, t)
    IN IF m # "false" THEN m
       ELSE LET c == OptionalIncludes(e.code, t)
            IN IF c # "false" THEN c ELSE OptionalIncludes(e.type, t)

\* retry.ts:38-43: opts.retryableErrors.some(...)
RECURSIVE IsRetryable(_, _)
IsRetryable(e, errTypes) ==
    IF errTypes = <<>> THEN "false"
    ELSE LET r == ErrTypeMatches(e, Head(errTypes))
         IN IF r # "false" THEN r ELSE IsRetryable(e, Tail(errTypes))

RECURSIVE Pow(_, _)
Pow(b, n) == IF n <= 0 THEN 1 ELSE b * Pow(b, n - 1)

\* retry.ts:50-53
DelayMs(opts, a) ==
    Min(opts.initialDelayMs * Pow(opts.backoffMultiplier, a), opts.maxDelayMs)

MakeError(name, message, code, type) ==
    [name |-> name, message |-> message, code |-> code, type |-> type, id |-> 0]

\* what fn may reject with
RetryErrors ==
    { MakeError("Error", Str(<<"bad", "request">>), Undef, Undef),
      MakeError("Error", Str(<<"429", "rate_limit_exceeded">>), Undef, Undef),
      MakeError("Error", Str(<<"socket", "hang", "up">>), Str(<<"ECONNRESET">>), Undef),
      MakeError("APIError", Str(<<"busy">>), Undef, Str(<<"service_unavailable">>)),
      MakeError("Error", Str(<<"bad", "request">>), Num, Undef),
      MakeError("Error", Str(<<"ETIMEDOUT">>), Num, Undef),
      MakeError("Object", Undef, Str(<<"ETIMEDOUT">>), Undef) }
RetryValues == {"v1", "v2"}

\* the TypeError of calling includes on a value that has none
IncludesTypeError ==
    MakeError("TypeError", Str(<<"includes", "is", "not", "a", "function">>), Undef, Undef)

\* retry.ts:64
ExhaustedError(last) ==
    MakeError("Error",
              IF last.def /\ last.v.message.kind = "string" /\ last.v.message.s # <<>>
              THEN last.v.message ELSE Str(<<"Max retries exceeded">>),
              Undef, Undef)

NoOutcome == [kind |-> "none"]
Returned(v) == [kind |-> "value", v |-> v]
Rejected(e) == [kind |-> "error", err |-> e]

\* retry.ts:28: { ...DEFAULT_OPTIONS, ...options }
MergeOptions(maxRetriesOption) ==
    [maxRetries |-> IF maxRetriesOption.def THEN maxRetriesOption.v ELSE DefaultMaxRetries,
     initialDelayMs |-> InitialDelayMs,
     maxDelayMs |-> MaxDelayMs,
     backoffMultiplier |-> BackoffMultiplier,
     retryableErrors |-> DefaultRetryableErrors]

RetryInit ==
    /\ retryPc = "loop"
    /\ \E m \in {None} \cup {Some(n) : n \in (-1)..MaxRetryOption} :
          retryOpts = MergeOptions(m)
    /\ attempt = 0
    /\ lastError = None
    /\ retryOutcome = NoOutcome
    /\ retryTrace = <<>>

RetryIdle ==
    /\ retryPc = "idle"
    /\ retryOpts = MergeOptions(None)
    /\ attempt = 0
    /\ lastError = None
    /\ retryOutcome = NoOutcome
    /\ retryTrace = <<>>

Invocations == Len(SelectSeq(retryTrace, LAMBDA ev : ev.ev = "call"))

\* retry.ts:31: the loop test
LoopContinuesOneMore(a, opts) == a <= opts.maxRetries + 1
LoopContinues(a, opts) == a <= opts.maxRetries

\* retry.ts:31-33: fn() resolved
RetrySucceed ==
    /\ retryPc = "loop"
    /\ LoopContinues(attempt, retryOpts)
    /\ \E v \in RetryValues :
          /\ retryTrace' = Append(retryTrace, [ev |-> "call", out |-> Returned(v)])
          /\ retryOutcome' = Returned(v)
    /\ retryPc' = "returned"
    /\ UNCHANGED <<retryOpts, attempt, lastError>>
    /\ UNCHANGED <<ragVars, critiqueVars, agentVars, citationVars, budgetVars>>
    /\ UNCHANGED <<rlVars, taskVars, chunkVars, prVars, toolVars>>

\* retry.ts:31-58: fn() rejected
RetryFail ==
    /\ retryPc = "loop"
    /\ LoopContinues(attempt, retryOpts)
    /\ \E raised \in RetryErrors :
          LET e == [raised EXCEPT !.id = Invocations + 1]
              isRetryable == IsRetryable(e, retryOpts.retryableErrors)
              called == Append(retryTrace, [ev |-> "call", out |-> Rejected(e)])
          IN /\ lastError' = Some(e)
             /\ IF isRetryable = "TypeError"
                THEN /\ retryPc' = "rejected"
                     /\ retryOutcome' = Rejected(IncludesTypeError)
                     /\ retryTrace' = called
                ELSE IF isRetryable = "false" \/ attempt = retryOpts.maxRetries
                THEN /\ retryPc' = "rejected"
                     /\ retryOutcome' = Rejected(e)
                     /\ retryTrace' = called
                ELSE /\ retryPc' = "delay"
                     /\ retryOutcome' = retryOutcome
                     /\ retryTrace' = Append(called,
                            [ev |-> "delay", ms |-> DelayMs(retryOpts, attempt)])
    /\ UNCHANGED <<retryOpts, attempt>>
    /\ UNCHANGED <<ragVars, critiqueVars, agentVars, citationVars, budgetVars>>
    /\ UNCHANGED <<rlVars, taskVars, chunkVars, prVars, toolVars>>

\* retry.ts:60 and the attempt++ of the for statement
RetryWake ==
    /\ retryPc = "delay"
    /\ attempt' = attempt + 1
    /\ retryPc' = "loop"
    /\ UNCHANGED <<retryOpts, lastError, retryOutcome, retryTrace>>
    /\ UNCHANGED <<ragVars, critiqueVars, agentVars, citationVars, budgetVars>>
    /\ UNCHANGED <<rlVars, taskVars, chunkVars, prVars, toolVars>>

\* retry.ts:64: the loop ended without a return or a throw
RetryExhausted ==
    /\ retryPc = "loop"
    /\ ~LoopContinues(attempt, retryOpts)
    /\ retryPc' = "rejected"
    /\ retryOutcome' = Rejected(ExhaustedError(lastError))
    /\ UNCHANGED <<retryOpts, attempt, lastError, retryTrace>>
    /\ UNCHANGED <<ragVars, critiqueVars, agentVars, citationVars, budgetVars>>
    /\ UNCHANGED <<rlVars, taskVars, chunkVars, prVars, toolVars>>

RetryNext == RetrySucceed \/ RetryFail \/ RetryWake \/ RetryExhausted

----------------------------------------------------------------------------
(* Properties of withRetry *)
RetrySettled == retryPc \in {"returned", "rejected"}
CallEvents == {i \in 1..Len(retryTrace) : retryTrace[i].ev = "call"}
SucceededCalls == {i \in CallEvents : retryTrace[i].out.kind = "value"}
FailedCalls == {i \in CallEvents : retryTrace[i].out.kind = "error"}

\* once an invocation succeeds fn is not invoked again and its value is the result
SuccessEndsRetry ==
    \A i \in SucceededCalls :
        /\ i = Len(retryTrace)
        /\ retryPc = "returned"
        /\ retryOutcome = retryTrace[i].out

\* C21 as stated: for every options, fn is invoked at least once and at most
\* maxRetries + 1 times (4 with the defaults), withRetry settles after the
\* last of these invocations, and a success ends the retrying with its value.
C21_BoundedAttempts ==
    /\ Invocations <= retryOpts.maxRetries + 1
    /\ (retryOpts.maxRetries = 3 => Invocations <= 4)
    /\ (RetrySettled =>
            /\ Invocations >= 1
            /\ retryTrace[Len(retryTrace)].ev = "call")
    /\ SuccessEndsRetry

\* C21 amended: the bound holds for maxRetries >= 0; with a negative maxRetries
\* fn is never invoked and withRetry rejects with 'Max retries exceeded'.
C21_BoundedAttemptsNonNegative ==
    /\ (retryOpts.maxRetries >= 0 =>
            /\ Invocations <= retryOpts.maxRetries + 1
            /\ (RetrySettled =>
                    /\ Invocations >= 1
                    /\ retryTrace[Len(retryTrace)].ev = "call"))
    /\ (retryOpts.maxRetries = 3 => Invocations <= 4)
    /\ (retryOpts.maxRetries < 0 =>
            /\ Invocations = 0
            /\ (RetrySettled =>
                    /\ retryOutcome.kind = "error"
                    /\ retryOutcome.err.id = 0
                    /\ retryOutcome.err.message = Str(<<"Max retries exceeded">>)))
    /\ SuccessEndsRetry

\* the last allowed invocation succeeds after maxRetries retryable failures
C21_Witness ==
    /\ retryPc = "returned"
    /\ retryOpts.maxRetries = 2
    /\ Invocations = 3
    /\ retryOutcome.kind = "value"

\* negative maxRetries: settled without a single invocation
C21_NeverInvoked ==
    /\ retryPc = "rejected"
    /\ retryOpts.maxRetries < 0
    /\ Invocations = 0

\* none of the three fields holds one of the allow-listed strings
NotAllowListed(e) ==
    \A f \in {e.message, e.code, e.type} :
        f.kind = "string" =>
            \A n \in 1..5 : ~Includes(f.s, DefaultRetryableErrors[n])

\* C22: an invocation failing with an error that is not allow-listed makes
\* withRetry reject with that same error at once (no delay, no further
\* invocation); when all maxRetries + 1 invocations fail with retryable
\* errors, withRetry rejects with the error of the last invocation.
C22_OnlyAllowListedRetried ==
    /\ \A i \in FailedCalls :
          NotAllowListed(retryTrace[i].out.err) =>
              /\ i = Len(retryTrace)
              /\ retryPc = "rejected"
              /\ retryOutcome = retryTrace[i].out
    /\ (/\ RetrySettled
        /\ retryOpts.maxRetries >= 0
        /\ Invocations = retryOpts.maxRetries + 1
        /\ SucceededCalls = {}
        /\ \A i \in FailedCalls : ~NotAllowListed(retryTrace[i].out.err))
       => /\ retryPc = "rejected"
          /\ retryOutcome = retryTrace[Len(retryTrace)].out

----------------------------------------------------------------------------
(* RateLimiter (part_009:136-176) with a clock that never runs backwards *)
RlKeys == {"k1", "k2"}

RlInit ==
    /\ requests = [k \in RlKeys |-> <<>>]
    /\ maxRequests \in 0..MaxRlRequests
    /\ windowMs \in 1..MaxRlWindow
    /\ rlNow = 0
    /\ rlHistory = <<>>

RlIdle ==
    /\ requests = [k \in RlKeys |-> <<>>]
    /\ maxRequests = 0
    /\ windowMs = 1
    /\ rlNow = 0
    /\ rlHistory = <<>>

\* part_009:151: requests.filter(ts => now - ts < this.windowMs)
ValidRequests(reqs, now) == SelectSeq(reqs, LAMBDA ts : now - ts < windowMs)

\* part_009:153
OverLimitLax(n) == n > maxRequests
OverLimit(n) == n >= maxRequests

\* part_009:146-160
checkLimit(key) ==
    /\ Len(rlHistory) < MaxRlCalls
    /\ LET validRequests == ValidRequests(requests[key], rlNow)
       IN IF OverLimit(Len(validRequests))
          THEN /\ requests' = requests
               /\ rlHistory' = Append(rlHistory,
                                  [key |-> key, now |-> rlNow, ok |-> FALSE])
          ELSE /\ requests' = [requests EXCEPT ![key] = Append(validRequests, rlNow)]
               /\ rlHistory' = Append(rlHistory,
                                  [key |-> key, now |-> rlNow, ok |-> TRUE])
    /\ UNCHANGED <<maxRequests, windowMs, rlNow>>
    /\ UNCHANGED <<ragVars, critiqueVars, agentVars, citationVars, budgetVars>>
    /\ UNCHANGED <<retryVars, taskVars, chunkVars, prVars, toolVars>>

RlCheckLimit == \E key \in RlKeys : checkLimit(key)

\* Date.now() moves on
RlTick ==
    /\ rlNow < MaxClock
    /\ rlNow' = rlNow + 1
    /\ UNCHANGED <<requests, maxRequests, windowMs, rlHistory>>
    /\ UNCHANGED <<ragVars, critiqueVars, agentVars, citationVars, budgetVars>>
    /\ UNCHANGED <<retryVars, taskVars, chunkVars, prVars, toolVars>>

RlNext == RlCheckLimit \/ RlTick

----------------------------------------------------------------------------
(* Properties of RateLimiter *)
AcceptedIn(k, a, b) ==
    {i \in 1..Len(rlHistory) :
        /\ rlHistory[i].key = k
        /\ rlHistory[i].ok
        /\ a <= rlHistory[i].now
        /\ rlHistory[i].now <= b}

\* every interval shorter than windowMs holds at most maxRequests accepted calls
WindowRespected ==
    \A k \in RlKeys : \A a \in 0..rlNow : \A b \in a..rlNow :
        b - a < windowMs => Cardinality(AcceptedIn(k, a, b)) <= maxRequests

\* the outcome of a call is a function of the earlier calls for the same key
OutcomePerKey ==
    \A i \in 1..Len(rlHistory) :
        LET recent == {j \in 1..(i - 1) :
                          /\ rlHistory[j].key = rlHistory[i].key
                          /\ rlHistory[j].ok
                          /\ rlHistory[i].now - rlHistory[j].now < windowMs}
        IN rlHistory[i].ok <=> Cardinality(recent) < maxRequests

\* a call that returns false records nothing; a call changes its own key only
CheckLimitStep ==
    Len(rlHistory') = Len(rlHistory) + 1 =>
        LET call == rlHistory'[Len(rlHistory')]
        IN /\ (~call.ok => requests' = requests)
           /\ (call.ok => requests'[call.key][Len(requests'[call.key])] = call.now)
           /\ \A k \in RlKeys \ {call.key} : requests'[k] = requests[k]

\* C23: per key, the calls that return true inside any interval shorter than
\* windowMs never number more than maxRequests; a call that returns false
\* records no timestamp; calls for one key do not change the outcome for
\* another key.
C23_SlidingWindowPerKey ==
    /\ [](WindowRespected /\ OutcomePerKey)
    /\ [][CheckLimitStep]_vars

\* a key is refused while the other key is served, and is served again once
\* its window has slid
C23_Witness ==
    /\ maxRequests >= 1
    /\ \E i, j, l \in 1..Len(rlHistory) :
          /\ i < j /\ j < l
          /\ rlHistory[i].key = rlHistory[l].key
          /\ rlHistory[j].key # rlHistory[i].key
          /\ ~rlHistory[i].ok
          /\ rlHistory[j].ok
          /\ rlHistory[l].ok

----------------------------------------------------------------------------
(* The Convex task table (convex/tasks.ts) and the workers that poll it     *)
DefaultMaxAttempts == 3
TaskStatuses == {"pending", "processing", "completed", "failed"}
Workers == 1..NumWorkers

TaskInit ==
    /\ tasks = <<>>
    /\ workerPc = [w \in Workers |-> "idle"]
    /\ workerTask = [w \in Workers |-> 0]
    /\ claimLog = <<>>

TaskIdle ==
    /\ tasks = <<>>
    /\ workerPc = [w \in Workers |-> "stopped"]
    /\ workerTask = [w \in Workers |-> 0]
    /\ claimLog = <<>>

\* tasks.ts:18-25: maxAttempts: args.maxAttempts || 3
NewTask(maxAttemptsArg) ==
    [status |-> "pending",
     attempts |-> 0,
     maxAttempts |-> IF maxAttemptsArg.def /\ maxAttemptsArg.v # 0
                     THEN maxAttemptsArg.v ELSE DefaultMaxAttempts,
     startedAt |-> FALSE,
     completedAt |-> FALSE]

\* tasks.ts:11-28
enqueueTask(maxAttemptsArg) ==
    /\ Len(tasks) < MaxTasks
    /\ tasks' = Append(tasks, NewTask(maxAttemptsArg))

\* tasks.ts:33-40: the first pending row, or null (0)
getNextTask ==
    LET pending == {i \in 1..Len(tasks) : tasks[i].status = "pending"}
    IN IF pending = {} THEN 0 ELSE MinOf(pending)

\* tasks.ts:56-73: the fields the mutation patches
PatchTask(task, status) ==
    [task EXCEPT
        !.status = status,
        !.startedAt = IF status = "processing" THEN TRUE ELSE @,
        !.attempts = IF status = "processing" THEN @ + 1 ELSE @,
        !.completedAt = IF status \in {"completed", "failed"} THEN TRUE ELSE @]

\* tasks.ts:45-77
updateTaskStatus(taskId, status) ==
    /\ taskId \in 1..Len(tasks)
    /\ status = "processing" => tasks[taskId].attempts < MaxTaskAttempts
    /\ tasks' = [tasks EXCEPT ![taskId] = PatchTask(@, status)]

EnqueueTask ==
    /\ \E m \in {None, Some(0), Some(1), Some(2)} : enqueueTask(m)
    /\ UNCHANGED <<workerPc, workerTask, claimLog>>
    /\ UNCHANGED <<ragVars, critiqueVars, agentVars, citationVars, budgetVars>>
    /\ UNCHANGED <<retryVars, rlVars, chunkVars, prVars, toolVars>>

\* any client of the mutation
UpdateTaskStatus ==
    /\ \E taskId \in 1..Len(tasks) : \E status \in TaskStatuses :
          updateTaskStatus(taskId, status)
    /\ UNCHANGED <<workerPc, workerTask, claimLog>>
    /\ UNCHANGED <<ragVars, critiqueVars, agentVars, citationVars, budgetVars>>
    /\ UNCHANGED <<retryVars, rlVars, chunkVars, prVars, toolVars>>

\* a worker polls: the query getNextTask
WorkerPoll(w) ==
    /\ workerPc[w] = "idle"
    /\ getNextTask # 0
    /\ workerTask' = [workerTask EXCEPT ![w] = getNextTask]
    /\ workerPc' = [workerPc EXCEPT ![w] = "claim"]
    /\ UNCHANGED <<tasks, claimLog>>
    /\ UNCHANGED <<ragVars, critiqueVars, agentVars, citationVars, budgetVars>>
    /\ UNCHANGED <<retryVars, rlVars, chunkVars, prVars, toolVars>>

\* the worker's mutation updateTaskStatus(taskId, 'processing')
WorkerClaim(w) ==
    /\ workerPc[w] = "claim"
    /\ updateTaskStatus(workerTask[w], "processing")
    /\ claimLog' = Append(claimLog, [worker |-> w, task |-> workerTask[w],
                                     before |-> tasks[workerTask[w]].status])
    /\ workerPc' = [workerPc EXCEPT ![w] = "work"]
    /\ UNCHANGED workerTask
    /\ UNCHANGED <<ragVars, critiqueVars, agentVars, citationVars, budgetVars>>
    /\ UNCHANGED <<retryVars, rlVars, chunkVars, prVars, toolVars>>

\* the worker reports the outcome and polls again
WorkerFinish(w) ==
    /\ workerPc[w] = "work"
    /\ \E status \in {"completed", "failed"} :
          updateTaskStatus(workerTask[w], status)
    /\ workerPc' = [workerPc EXCEPT ![w] = "idle"]
    /\ UNCHANGED <<workerTask, claimLog>>
    /\ UNCHANGED <<ragVars, critiqueVars, agentVars, citationVars, budgetVars>>
    /\ UNCHANGED <<retryVars, rlVars, chunkVars, prVars, toolVars>>

WorkerStep == \E w \in Workers : WorkerPoll(w) \/ WorkerClaim(w) \/ WorkerFinish(w)

TaskNext == EnqueueTask \/ UpdateTaskStatus
WorkerNext == EnqueueTask \/ WorkerStep

----------------------------------------------------------------------------
(* Properties of the task table *)
\* C24: after any sequence of enqueueTask and updateTaskStatus calls, no
\* task's attempts exceeds its maxAttempts.
C24_AttemptsWithinMax ==
    \A i \in 1..Len(tasks) : tasks[i].attempts <= tasks[i].maxAttempts

\* C25: a pending task is claimed by at most one worker: no worker moves a
\* task to 'processing' that is already 'processing', and no two workers
\* claim the same task.
C25_SingleClaim ==
    /\ \A i \in 1..Len(claimLog) : claimLog[i].before # "processing"
    /\ \A i, j \in 1..Len(claimLog) :
          claimLog[i].task = claimLog[j].task =>
              claimLog[i].worker = claimLog[j].worker

----------------------------------------------------------------------------
(* chunkText (part_016:40-55).  The text is a sequence of characters.       *)
DefaultChunkSize == 1000
DefaultOverlap == 200
Alphabet == <<"a", "b", "c", "d", "e", "f", "g", "h">>
Max(a, b) == IF a > b THEN a ELSE b

\* String.prototype.slice: a negative index counts from the end
SliceIndex(s, i) == IF i < 0 THEN Max(Len(s) + i, 0) ELSE Min(i, Len(s))
Slice(s, from, to) ==
    IF SliceIndex(s, from) >= SliceIndex(s, to) THEN <<>>
    ELSE SubSeq(s, SliceIndex(s, from) + 1, SliceIndex(s, to))

\* part_016:44: const { chunkSize = 1000, overlap = 200 } = options
OptionOr(option, default) == IF option.def THEN option.v ELSE default

ChunkInit ==
    /\ chunkPc = "loop"
    /\ \E n \in 0..Min(MaxTextLen, Len(Alphabet)) : docText = SubSeq(Alphabet, 1, n)
    /\ \E c \in {None} \cup {Some(n) : n \in 1..MaxChunkSize} :
          chunkSize = OptionOr(c, DefaultChunkSize)
    /\ \E o \in {None} \cup {Some(n) : n \in 0..MaxOverlap} :
          overlap = OptionOr(o, DefaultOverlap)
    /\ start = 0
    /\ chunks = <<>>

ChunkIdle ==
    /\ chunkPc = "idle"
    /\ docText = <<>>
    /\ chunkSize = DefaultChunkSize
    /\ overlap = DefaultOverlap
    /\ start = 0
    /\ chunks = <<>>

\* part_016:48-52: one iteration of the while loop
ChunkStep ==
    /\ chunkPc = "loop"
    /\ start < Len(docText)
    /\ Len(chunks) < MaxChunks
    /\ LET end == Min(start + chunkSize, Len(docText))
       IN chunks' = Append(chunks, Slice(docText, start, end))
    /\ start' = start + (chunkSize - overlap)
    /\ UNCHANGED <<chunkPc, docText, chunkSize, overlap>>
    /\ UNCHANGED <<ragVars, critiqueVars, agentVars, citationVars, budgetVars>>
    /\ UNCHANGED <<retryVars, rlVars, taskVars, prVars, toolVars>>

\* part_016:48,54: the loop test fails and chunks is returned
ChunkReturn ==
    /\ chunkPc = "loop"
    /\ ~(start < Len(docText))
    /\ chunkPc' = "returned"
    /\ UNCHANGED <<docText, chunkSize, overlap, start, chunks>>
    /\ UNCHANGED <<ragVars, critiqueVars, agentVars, citationVars, budgetVars>>
    /\ UNCHANGED <<retryVars, rlVars, taskVars, prVars, toolVars>>

ChunkNext == ChunkStep \/ ChunkReturn

----------------------------------------------------------------------------
(* Properties of chunkText *)
\* C26: with chunkSize >= 1 and overlap >= 0 the start offset strictly
\* increases on every loop iteration, so the loop reaches the end of the text
\* and chunkText returns a finite list.
C26_StartStrictlyIncreases ==
    [][(chunkSize >= 1 /\ overlap >= 0 /\ Len(chunks') = Len(chunks) + 1)
          => start' > start]_vars

----------------------------------------------------------------------------
(* reviewPR (advanced/01-multi-agent-pr-reviewer/index.ts:94-128)           *)
FileNames == {"a.ts", "b.ts"}
RECURSIVE SeqsUpTo(_, _)
SeqsUpTo(S, n) ==
    IF n = 0 THEN {<<>>}
    ELSE SeqsUpTo(S, n - 1) \cup
         {Append(s, x) : s \in {t \in SeqsUpTo(S, n - 1) : Len(t) = n - 1}, x \in S}

PrInit ==
    /\ prPc = "planning"
    /\ files \in SeqsUpTo(FileNames, MaxFiles)
    /\ strategy = None
    /\ reviewStatus = [i \in 1..Len(files) |-> "pending"]
    /\ reviewValues = [i \in 1..Len(files) |-> None]
    /\ prResult = NoOutcome
    /\ prEvents = <<>>

PrIdle ==
    /\ prPc = "idle"
    /\ files = <<>>
    /\ strategy = None
    /\ reviewStatus = <<>>
    /\ reviewValues = <<>>
    /\ prResult = NoOutcome
    /\ prEvents = <<>>

\* index.ts:78-81: what a code reviewer resolves with
ReviewOf(file, content) == [file |-> file, review |-> content]

\* Promise.all: a fulfilled value is stored at the index of its promise
CollectInCompletionOrder(values, i, v) ==
    [values EXCEPT ![MinOf({k \in 1..Len(values) : ~values[k].def})] = Some(v)]
CollectAt(values, i, v) == [values EXCEPT ![i] = Some(v)]

\* index.ts:104-109: plannerAgent resolved with a text; the log line is
\* printed and files.map starts every code reviewer up to its first await
PlannerResolve ==
    /\ prPc = "planning"
    /\ strategy' = Some(<<"focus", "areas">>)
    /\ reviewStatus' = [i \in 1..Len(files) |-> "running"]
    /\ prEvents' = (prEvents \o <<[ev |-> "planned", i |-> 0]>>)
                      \o [i \in 1..Len(files) |-> [ev |-> "start", i |-> i]]
    /\ prPc' = "reviewing"
    /\ UNCHANGED <<files, reviewValues, prResult>>
    /\ UNCHANGED <<ragVars, critiqueVars, agentVars, citationVars, budgetVars>>
    /\ UNCHANGED <<retryVars, rlVars, taskVars, chunkVars, toolVars>>

\* index.ts:104-105, 121-123: plannerAgent rejected, or resolved with no
\* content so that strategy.substring raises a TypeError
PlannerFail ==
    /\ prPc = "planning"
    /\ \E e \in {MakeError("Error", Str(<<"planner", "failed">>), Undef, Undef),
                 MakeError("TypeError", Str(<<"substring", "of", "undefined">>), Undef, Undef)} :
          prResult' = Rejected(e)
    /\ prEvents' = Append(prEvents, [ev |-> "failed", i |-> 0])
    /\ prPc' = "rejected"
    /\ UNCHANGED <<files, strategy, reviewStatus, reviewValues>>
    /\ UNCHANGED <<ragVars, critiqueVars, agentVars, citationVars, budgetVars>>
    /\ UNCHANGED <<retryVars, rlVars, taskVars, chunkVars, toolVars>>

\* index.ts:63-81: the completion of reviewer i resolved
ReviewResolve(i) ==
    /\ reviewStatus[i] = "running"
    /\ reviewStatus' = [reviewStatus EXCEPT ![i] = "fulfilled"]
    /\ reviewValues' = CollectAt(reviewValues, i, ReviewOf(files[i], <<"lgtm">>))
    /\ prEvents' = Append(prEvents, [ev |-> "resolved", i |-> i])
    /\ UNCHANGED <<prPc, files, strategy, prResult>>
    /\ UNCHANGED <<ragVars, critiqueVars, agentVars, citationVars, budgetVars>>
    /\ UNCHANGED <<retryVars, rlVars, taskVars, chunkVars, toolVars>>

\* index.ts:82-84, 109, 121-123: the completion of reviewer i rejected;
\* Promise.all rejects with the first rejection and reviewPR rethrows it
ReviewReject(i) ==
    /\ reviewStatus[i] = "running"
    /\ reviewStatus' = [reviewStatus EXCEPT ![i] = "rejected"]
    /\ prEvents' = Append(prEvents, [ev |-> "rejected", i |-> i])
    /\ IF prPc = "reviewing"
       THEN /\ prPc' = "rejected"
            /\ prResult' = Rejected([MakeError("Error", Str(<<"review", "failed">>),
                                               Undef, Undef) EXCEPT !.id = i])
       ELSE UNCHANGED <<prPc, prResult>>
    /\ UNCHANGED <<files, strategy, reviewValues>>
    /\ UNCHANGED <<ragVars, critiqueVars, agentVars, citationVars, budgetVars>>
    /\ UNCHANGED <<retryVars, rlVars, taskVars, chunkVars, toolVars>>

\* index.ts:109-120: every reviewer fulfilled, Promise.all resolves
PrReturn ==
    /\ prPc = "reviewing"
    /\ \A i \in 1..Len(files) : reviewStatus[i] = "fulfilled"
    /\ prResult' = Returned([strategy |-> strategy.v,
                             reviews |-> [i \in 1..Len(files) |-> reviewValues[i].v]])
    /\ prPc' = "returned"
    /\ UNCHANGED <<files, strategy, reviewStatus, reviewValues, prEvents>>
    /\ UNCHANGED <<ragVars, critiqueVars, agentVars, citationVars, budgetVars>>
    /\ UNCHANGED <<retryVars, rlVars, taskVars, chunkVars, toolVars>>

PrNext ==
    \/ PlannerResolve
    \/ PlannerFail
    \/ \E i \in 1..Len(files) : ReviewResolve(i) \/ ReviewReject(i)
    \/ PrReturn

----------------------------------------------------------------------------
(* Properties of reviewPR *)
EventIndex(ev, i) ==
    {n \in 1..Len(prEvents) : prEvents[n].ev = ev /\ prEvents[n].i = i}

\* C27: no code review starts before the planner has completed; whatever the
\* order in which the reviews complete, the result has
\* reviews[i].file = files[i].filename for all i; if a review fails reviewPR
\* rejects and returns no list of reviews.
C27_FanOutStableByInputOrder ==
    /\ \A i \in 1..Len(files) :
          reviewStatus[i] # "pending" =>
              /\ strategy.def
              /\ \A s \in EventIndex("start", i) :
                    \E p \in EventIndex("planned", 0) : p < s
    /\ prPc = "returned" =>
          /\ prResult.kind = "value"
          /\ Len(prResult.v.reviews) = Len(files)
          /\ \A i \in 1..Len(files) : prResult.v.reviews[i].file = files[i]
    /\ (\E i \in 1..Len(files) : reviewStatus[i] = "rejected") =>
          /\ prPc = "rejected"
          /\ prResult.kind = "error"

\* the reviews of two different files completed in the reverse of their
\* input order and reviewPR returned
C27_Witness ==
    /\ prPc = "returned"
    /\ Len(files) >= 2
    /\ files[1] # files[2]
    /\ \E m \in EventIndex("resolved", 2) : \E n \in EventIndex("resolved", 1) : m < n

----------------------------------------------------------------------------
(* executeTool and the tool registry (beginner/01-tool-calling-cli/tools.ts) *)
NumV(n) == [kind |-> "number", s |-> <<>>, n |-> n]
RegisteredTools == <<"calculator", "get_weather", "list_files">>
ToolNames == {"calculator", "get_weather", "list_files", "search_web"}
Operations == {<<"add">>, <<"subtract">>, <<"multiply">>, <<"divide">>}

\* args is whatever the model sent: an object with some of the fields, or null
NullArgs == [kind |-> "null"]
ToolArgs ==
    {NullArgs} \cup
    [kind : {"object"},
     operation : {Str(<<"add">>), Str(<<"subtract">>), Str(<<"multiply">>),
                  Str(<<"divide">>), Str(<<"modulo">>)},
     a : {NumV(6), Str(<<"6">>)},
     b : {NumV(0), NumV(3), Undef},
     location : {Str(<<"London">>), Str(<<"Paris">>), Undef},
     directory : {Str(<<"src">>), Undef, NumV(1)}]

\* tools.ts:8-12, 30-32, 55-57: schema.parse, None when it throws a ZodError
calculatorSchema(args) ==
    IF /\ args.kind = "object"
       /\ args.operation.kind = "string" /\ args.operation.s \in Operations
       /\ args.a.kind = "number"
       /\ args.b.kind = "number"
    THEN Some([operation |-> args.operation.s, a |-> args.a.n, b |-> args.b.n])
    ELSE None
weatherSchema(args) ==
    IF args.kind = "object" /\ args.location.kind = "string"
    THEN Some([location |-> args.location.s])
    ELSE None
listFilesSchema(args) ==
    IF args.kind = "object" /\ args.directory.kind \in {"string", "undefined"}
    THEN Some([directory |-> IF args.directory.kind = "undefined"
                             THEN <<".">> ELSE args.directory.s])
    ELSE None
SchemaOf(name, args) ==
    CASE name = "calculator" -> calculatorSchema(args)
      [] name = "get_weather" -> weatherSchema(args)
      [] name = "list_files" -> listFilesSchema(args)

ZodError == MakeError("ZodError", Str(<<"invalid", "arguments">>), Undef, Undef)
DivisionByZero == MakeError("Error", Str(<<"Division", "by", "zero">>), Undef, Undef)

\* tools.ts:14-27: a quotient is kept as numerator and denominator
calculator(args) ==
    CASE args.operation = <<"add">> ->
            Returned([type |-> "number", num |-> args.a + args.b, den |-> 1])
      [] args.operation = <<"subtract">> ->
            Returned([type |-> "number", num |-> args.a - args.b, den |-> 1])
      [] args.operation = <<"multiply">> ->
            Returned([type |-> "number", num |-> args.a * args.b, den |-> 1])
      [] args.operation = <<"divide">> ->
            IF args.b = 0 THEN Rejected(DivisionByZero)
            ELSE Returned([type |-> "number", num |-> args.a, den |-> args.b])

\* String.prototype.toLowerCase on the city names in use
ToLowerCase(s) ==
    [i \in 1..Len(s) |-> CASE s[i] = "London" -> "london"
                           [] s[i] = "Paris" -> "paris"
                           [] OTHER -> s[i]]

\* tools.ts:34-52
getWeather(args) ==
    IF ToLowerCase(args.location) = <<"london">>
    THEN Returned([type |-> "weather", temp |-> 58, condition |-> "Rainy"])
    ELSE Returned([type |-> "weather", temp |-> 70, condition |-> "Unknown"])

\* tools.ts:59-72: readdir succeeds or fails; listFiles never rejects
listFiles(args, readable) ==
    IF readable
    THEN Returned([type |-> "listing", directory |-> args.directory])
    ELSE Returned([type |-> "error", error |-> Str(<<"Unable", "to", "list", "files">>),
                   directory |-> args.directory])

\* tools.ts:149-151: the catch block of executeTool
CatchRethrow(e) == Rejected(e)
CatchHandler(e) == Returned([type |-> "error", error |-> e.message])

ToolInit ==
    /\ toolPc = "called"
    /\ toolName \in ToolNames
    /\ toolArgs \in ToolArgs
    /\ toolResult = NoOutcome
    /\ toolExecuted = <<>>

ToolIdle ==
    /\ toolPc = "idle"
    /\ toolName = "calculator"
    /\ toolArgs = NullArgs
    /\ toolResult = NoOutcome
    /\ toolExecuted = <<>>

IsRegistered(name) == \E i \in 1..Len(RegisteredTools) : RegisteredTools[i] = name

\* tools.ts:140-143: tools.find found nothing
ExecuteUnknownTool ==
    /\ toolPc = "called"
    /\ ~IsRegistered(toolName)
    /\ toolResult' = Rejected(MakeError("Error", Str(<<"Unknown", "tool:", toolName>>),
                                        Undef, Undef))
    /\ toolPc' = "settled"
    /\ UNCHANGED <<toolName, toolArgs, toolExecuted>>
    /\ UNCHANGED <<ragVars, critiqueVars, agentVars, citationVars, budgetVars>>
    /\ UNCHANGED <<retryVars, rlVars, taskVars, chunkVars, prVars>>

\* tools.ts:145-151: schema.parse throws inside the try block
ExecuteInvalidArgs ==
    /\ toolPc = "called"
    /\ IsRegistered(toolName)
    /\ ~SchemaOf(toolName, toolArgs).def
    /\ toolResult' = CatchHandler(ZodError)
    /\ toolPc' = "settled"
    /\ UNCHANGED <<toolName, toolArgs, toolExecuted>>
    /\ UNCHANGED <<ragVars, critiqueVars, agentVars, citationVars, budgetVars>>
    /\ UNCHANGED <<retryVars, rlVars, taskVars, chunkVars, prVars>>

\* tools.ts:145-151: the arguments are valid and tool.execute runs
ExecuteValidArgs ==
    /\ toolPc = "called"
    /\ IsRegistered(toolName)
    /\ SchemaOf(toolName, toolArgs).def
    /\ \E readable \in BOOLEAN :
          LET validatedArgs == SchemaOf(toolName, toolArgs).v
              settled == CASE toolName = "calculator" -> calculator(validatedArgs)
                           [] toolName = "get_weather" -> getWeather(validatedArgs)
                           [] toolName = "list_files" -> listFiles(validatedArgs, readable)
          IN toolResult' = IF settled.kind = "error" THEN CatchHandler(settled.err)
                           ELSE settled
    /\ toolExecuted' = Append(toolExecuted, toolName)
    /\ toolPc' = "settled"
    /\ UNCHANGED <<toolName, toolArgs>>
    /\ UNCHANGED <<ragVars, critiqueVars, agentVars, citationVars, budgetVars>>
    /\ UNCHANGED <<retryVars, rlVars, taskVars, chunkVars, prVars>>

ToolNext == ExecuteUnknownTool \/ ExecuteInvalidArgs \/ ExecuteValidArgs

----------------------------------------------------------------------------
(* Properties of executeTool *)
IsErrorObject(r) ==
    /\ r.kind = "value"
    /\ r.v.type = "error"
    /\ r.v.error.kind = "string"

DividesByZero(name, args) ==
    /\ name = "calculator"
    /\ args.kind = "object"
    /\ args.operation = Str(<<"divide">>)
    /\ args.a.kind = "number"
    /\ args.b = NumV(0)

\* C30: for a registered tool a validation failure or an error thrown by the
\* tool (calculator division by zero) yields a returned {error: message} and
\* executeTool does not throw; it throws only when the tool name is not
\* registered, and then no tool is executed.
C30_FailuresAreValues ==
    toolPc = "settled" =>
        /\ toolName \in {"calculator", "get_weather", "list_files"} =>
              /\ toolResult.kind = "value"
              /\ ~SchemaOf(toolName, toolArgs).def =>
                    (IsErrorObject(toolResult) /\ toolExecuted = <<>>)
              /\ DividesByZero(toolName, toolArgs) =>
                    /\ IsErrorObject(toolResult)
                    /\ toolResult.v.error = Str(<<"Division", "by", "zero">>)
        /\ toolName \notin {"calculator", "get_weather", "list_files"} =>
              /\ toolResult.kind = "error"
              /\ toolExecuted = <<>>

\* the calculator divided by zero and executeTool returned the error object
C30_Witness ==
    /\ toolPc = "settled"
    /\ DividesByZero(toolName, toolArgs)
    /\ toolExecuted = <<"calculator">>
    /\ toolResult.kind = "value"
    /\ toolResult.v.type = "error"

----------------------------------------------------------------------------
(* Further properties of agenticRAG *)
\* the confidence member of the last critique completion, as written
StatedConfidence ==
    Member(MatchObject(NthCall("critique", CallCount("critique")).resp).v, ConfTok)

\* C28: the returned confidence is the confidence stated in the final
\* iteration's critique, for every stated value including 0; the default 0.7
\* never replaces the value of a critique that was parsed successfully.
C28_StatedConfidenceReturned ==
    (/\ ragResult.returned
     /\ Len(critiques) >= 1
     /\ critiques[Len(critiques)].parsed
     /\ StatedConfidence.def)
    => ragResult.confidence = ConfVal(StatedConfidence.v)

\* C29: at termination the length of the returned refinementLog equals the
\* returned iterationCount, on a passing critique and at the cap alike.
C29_LogLengthIsIterationCount ==
    ragResult.returned => Len(ragResult.refinementLog) = ragResult.iterationCount

----------------------------------------------------------------------------
UtilityIdle == RetryIdle /\ RlIdle /\ TaskIdle /\ ChunkIdle /\ PrIdle /\ ToolIdle
CoreIdle == RagIdle /\ CritiqueIdle /\ AgentIdle /\ CitationIdle /\ BudgetIdle

\* agenticRAG
Init == RagInit /\ CritiqueIdle /\ AgentIdle /\ CitationIdle /\ BudgetIdle /\ UtilityIdle
Next == RagNext
Spec == Init /\ [][Next]_vars
FairSpec == Spec /\ WF_vars(Next)

\* critiqueAnswer on its own
InitCritique == RagIdle /\ CritiqueParseInit /\ AgentIdle /\ CitationIdle /\ BudgetIdle /\ UtilityIdle
NextCritique == CritiqueParse
SpecCritique == InitCritique /\ [][NextCritique]_vars

\* the research agent
InitAgent == RagIdle /\ CritiqueIdle /\ AgentInit /\ CitationIdle /\ BudgetIdle /\ UtilityIdle
SpecAgent == InitAgent /\ [][AgentNext]_vars

\* citation extraction on its own
InitCitations == RagIdle /\ CritiqueIdle /\ AgentIdle /\ CitationInit /\ BudgetIdle /\ UtilityIdle
NextCitations == CitationExtract
SpecCitations == InitCitations /\ [][NextCitations]_vars

\* BudgetGuard with concurrent requests
InitBudget == RagIdle /\ CritiqueIdle /\ AgentIdle /\ CitationIdle /\ BudgetInit /\ UtilityIdle
SpecBudget == InitBudget /\ [][BudgetNext]_vars

\* withRetry
InitRetry == CoreIdle /\ RetryInit /\ RlIdle /\ TaskIdle /\ ChunkIdle /\ PrIdle /\ ToolIdle
SpecRetry == InitRetry /\ [][RetryNext]_vars

\* RateLimiter
InitRateLimiter == CoreIdle /\ RetryIdle /\ RlInit /\ TaskIdle /\ ChunkIdle /\ PrIdle /\ ToolIdle
SpecRateLimiter == InitRateLimiter /\ [][RlNext]_vars

\* the task table under arbitrary clients, and under polling workers
InitTasks == CoreIdle /\ RetryIdle /\ RlIdle /\ TaskInit /\ ChunkIdle /\ PrIdle /\ ToolIdle
SpecTasks == InitTasks /\ [][TaskNext]_vars
SpecWorkers == InitTasks /\ [][WorkerNext]_vars

\* chunkText
InitChunk == CoreIdle /\ RetryIdle /\ RlIdle /\ TaskIdle /\ ChunkInit /\ PrIdle /\ ToolIdle
SpecChunk == InitChunk /\ [][ChunkNext]_vars

\* reviewPR
InitReview == CoreIdle /\ RetryIdle /\ RlIdle /\ TaskIdle /\ ChunkIdle /\ PrInit /\ ToolIdle
SpecReview == InitReview /\ [][PrNext]_vars

\* executeTool
InitTool == CoreIdle /\ RetryIdle /\ RlIdle /\ TaskIdle /\ ChunkIdle /\ PrIdle /\ ToolInit
SpecTool == InitTool /\ [][ToolNext]_vars
====
